---- MODULE Spec2Model ----
(***************************************************************************)
(* Token cache and authenticated-request dispatcher of outlook_server.py:  *)
(* get_access_token (lines 41-69) and make_graph_request (lines 72-101),   *)
(* and the tool handlers get_email, delete_email and read_emails that call *)
(* them, run as asyncio coroutines.  A coroutine is suspended only while   *)
(* it awaits a network call, so everything between two awaits is one step. *)
(***************************************************************************)
EXTENDS Integers, Sequences, FiniteSets, TLC

\* ------------------------------------------------------------------ bounds
MaxCalls == 3            \* invocations started in one behaviour
StartTime == 1000        \* datetime.now().timestamp() when the process starts
TickStep == 30           \* seconds the clock advances in one Tick
MaxTicks == 1            \* clock ticks in one behaviour

\* ------------------------------------------------------- program constants
ExpiryMargin == 60
DefaultExpiresIn == 3600
GRAPH_BASE_URL == "https://graph.microsoft.com/v1.0"

\* the tool invocations the transport has dispatched concurrently
Callers == {"c1", "c2"}

\* Python's None for the values that may be None; a present value v is <<v>>.
None == <<>>
Some(v) == <<v>>

\* bool(x) of an Optional[str] and of an Optional[float]
TruthyStr(x) == x /= None /\ x[1] /= ""
TruthyNum(x) == x /= None /\ x[1] /= 0

VARIABLES
    TENANT_ID, CLIENT_ID, CLIENT_SECRET,   \* os.environ at import, "" when unset
    access_token, token_expiry,            \* the module-level token cache
    now,                                   \* datetime.now().timestamp()
    task,                                  \* one coroutine per caller
    issued,                                \* tokens the identity provider has issued
    started,                               \* invocations started so far
    expiry_token                           \* the token that line 65 wrote before line 67 wrote token_expiry

vars == <<TENANT_ID, CLIENT_ID, CLIENT_SECRET, access_token, token_expiry,
          now, task, issued, started, expiry_token>>

\* ------------------------------------------------------------- the inputs
Methods == {"GET", "POST", "PATCH", "DELETE", "TRACE", "delete"}
Endpoints == {"/me/messages"}
\* data and params as the callers pass them: both left out, or both given
Arguments == {<<None, None>>, <<Some("{isRead:true}"), Some("$select=id")>>}

\* str.upper() on the method strings the callers pass
Upper(m) ==
    CASE m = "get" -> "GET"
      [] m = "post" -> "POST"
      [] m = "patch" -> "PATCH"
      [] m = "delete" -> "DELETE"
      [] m = "trace" -> "TRACE"
      [] OTHER -> m

\* ------------------------------------------------------------- exceptions
NoError == [type |-> "", msg |-> "", status |-> 0, text |-> ""]
Raise(type, msg) == [type |-> type, msg |-> msg, status |-> 0, text |-> ""]
\* response.raise_for_status(): the exception keeps the response (e.response)
HTTPStatusError(resp) ==
    [type |-> "httpx.HTTPStatusError", msg |-> "", status |-> resp.status, text |-> resp.text]

\* ------------------------------------------------- identity-provider replies
\* token_data["access_token"] and token_data.get("expires_in") as the JSON gives them
TokStr(s) == [t |-> "str", v |-> s]
TokMissing == [t |-> "missing", v |-> ""]
ExpInt(n) == [t |-> "int", v |-> n]
ExpAbsent == [t |-> "absent", v |-> 0]
ExpMalformed == [t |-> "str", v |-> 0]

NoTokenResponse == [status |-> 0, text |-> "", access_token |-> TokMissing, expires_in |-> ExpAbsent]
ExpiresInValues == {ExpInt(TickStep), ExpInt(ExpiryMargin + TickStep), ExpAbsent, ExpMalformed}

TokenResponses(n) ==
    {[status |-> 200, text |-> "json", access_token |-> TokStr("tok" \o ToString(n)), expires_in |-> e] :
        e \in ExpiresInValues}
    \cup {[status |-> 200, text |-> "json", access_token |-> TokMissing, expires_in |-> ExpAbsent]}
    \cup {[status |-> 401, text |-> "{\"error\":\"invalid_client\"}", access_token |-> TokMissing, expires_in |-> ExpAbsent]}

\* ---------------------------------------------------------- Graph replies
NoGraphResponse == [status |-> 0, text |-> ""]
GraphResponses ==
    { [status |-> 200, text |-> "{\"value\":[]}"],
      [status |-> 204, text |-> ""],
      [status |-> 403, text |-> "{\"error\":{\"message\":\"Access denied\"}}"],
      [status |-> 500, text |-> ""] }

\* as is_success, with only 5xx taken as a failure
is_success_lenient(resp) == resp.status >= 200 /\ resp.status <= 499

\* httpx.Response.is_success
is_success(resp) == resp.status >= 200 /\ resp.status <= 299

\* response.json() on the bodies above: the parsed mapping as a set of
\* <<key, value>> pairs, or "invalid" when the text is not JSON
IsJson(text) == text \in {"{\"value\":[]}", "{}"}
response_json(text) ==
    CASE text = "{\"value\":[]}" -> {<<"value", "[]">>}
      [] text = "{}" -> {}
      [] OTHER -> {<<"invalid", text>>}

\* ------------------------------------------------------- outbound requests
\* what httpx sends: the token exchange of line 61 and the Graph call of lines 84-90
TokenPost ==
    [kind |-> "token", verb |-> "POST",
     url |-> "https://login.microsoftonline.com/" \o TENANT_ID \o "/oauth2/v2.0/token",
     auth |-> "", json |-> None, params |-> None]

\* f"Bearer {token}"
Bearer(token) == "Bearer " \o (IF token = None THEN "None" ELSE token[1])

\* the keyword arguments each branch of lines 83-90 passes to the client
RequestJson(verb, data) == IF verb \in {"POST", "PATCH"} THEN data ELSE None
RequestParams(verb, params) == IF verb \in {"GET", "POST", "PATCH"} THEN params ELSE None

\* as GraphCall, with the Authorization header built from the module-level
\* cache as it was when the coroutine was resumed, not from the local token
GraphCall_cached(method, endpoint, token, data, params) ==
    [kind |-> "graph", verb |-> Upper(method), url |-> GRAPH_BASE_URL \o endpoint,
     auth |-> Bearer(access_token),
     json |-> RequestJson(Upper(method), data),
     params |-> RequestParams(Upper(method), params)]

GraphCall(method, endpoint, token, data, params) ==
    [kind |-> "graph", verb |-> Upper(method), url |-> GRAPH_BASE_URL \o endpoint,
     auth |-> Bearer(token),
     json |-> RequestJson(Upper(method), data),
     params |-> RequestParams(Upper(method), params)]

\* ------------------------------------------------------------ coroutines
IdleTask ==
    [pc |-> "idle", op |-> "", method |-> "", endpoint |-> "", data |-> None, params |-> None,
     token |-> None, got_token |-> FALSE, result |-> None, error |-> NoError, calls |-> <<>>,
     token_response |-> NoTokenResponse, response |-> NoGraphResponse,
     handler |-> "", message_id |-> "", output |-> "", escaped |-> NoError]

\* as token_fresh, with the comparison of line 45 turned around
token_fresh_reversed == TruthyStr(access_token) /\ TruthyNum(token_expiry) /\ now > token_expiry[1]

\* line 45: the cached token is returned only while this holds
token_fresh == TruthyStr(access_token) /\ TruthyNum(token_expiry) /\ now < token_expiry[1]

\* as credentials_missing, raising only when all three are missing
credentials_missing_all == TENANT_ID = "" /\ CLIENT_ID = "" /\ CLIENT_SECRET = ""

\* line 48
credentials_missing == TENANT_ID = "" \/ CLIENT_ID = "" \/ CLIENT_SECRET = ""

\* as Dispatch, with the request sent a second time
Dispatch_twice(t, tok) ==
    IF t.op = "get_access_token"
    THEN [t EXCEPT !.pc = "done", !.token = tok, !.got_token = TRUE]
    ELSE IF Upper(t.method) \in {"GET", "POST", "PATCH", "DELETE"}
         THEN [t EXCEPT !.pc = "graph_wait", !.token = tok, !.got_token = TRUE,
                        !.calls = @ \o << GraphCall(t.method, t.endpoint, tok, t.data, t.params),
                                          GraphCall(t.method, t.endpoint, tok, t.data, t.params) >>]
         ELSE [t EXCEPT !.pc = "done", !.token = tok, !.got_token = TRUE,
                        !.error = Raise("ValueError", "Unsupported method: " \o t.method)]

\* lines 72-92 after `token = await get_access_token()` has produced tok: the
\* request is sent (the coroutine suspends on it) or the method is refused.
\* For a direct get_access_token call the token is the result.
Dispatch(t, tok) ==
    IF t.op = "get_access_token"
    THEN [t EXCEPT !.pc = "done", !.token = tok, !.got_token = TRUE]
    ELSE IF Upper(t.method) \in {"GET", "POST", "PATCH", "DELETE"}
         THEN [t EXCEPT !.pc = "graph_wait", !.token = tok, !.got_token = TRUE,
                        !.calls = Append(@, GraphCall(t.method, t.endpoint, tok, t.data, t.params))]
         ELSE [t EXCEPT !.pc = "done", !.token = tok, !.got_token = TRUE,
                        !.error = Raise("ValueError", "Unsupported method: " \o t.method)]

Fail(t, err) == [t EXCEPT !.pc = "done", !.error = err]

\* lines 43-61: from the call to the first await (or to the return / raise)
Enter(t) ==
    IF token_fresh
    THEN Dispatch(t, access_token)
    ELSE IF credentials_missing
         THEN Fail(t, Raise("Exception", "Missing required credentials: TENANT_ID, CLIENT_ID, CLIENT_SECRET"))
         ELSE [t EXCEPT !.pc = "token_wait", !.calls = Append(@, TokenPost)]

\* ---------------------------------------------------------- tool handlers
\* get_email (204-223), delete_email (474-488) and read_emails (148-200): each
\* wraps one make_graph_request call in try / except Exception and returns text.
\* The emoji that open the texts are left out of the strings.
MessageIds == {"", "  ", "m1"}

\* str.strip() on the message ids above
Strip(s) == IF s = "  " THEN "" ELSE s

\* dict.get(key, default) on a parsed mapping
Get(d, key, default) ==
    IF \E p \in d : p[1] = key THEN (CHOOSE p \in d : p[1] = key)[2] ELSE default

\* lines 104-142, the fields that are always shown abridged to three of them
format_email(msg) ==
    "Subject: " \o Get(msg, "subject", "No Subject")
        \o "\nReceived: " \o Get(msg, "receivedDateTime", "N/A")
        \o "\nImportance: " \o Get(msg, "importance", "normal")

\* str(e) of the exceptions get_access_token and make_graph_request raise
ErrorText(e) ==
    CASE e.type = "KeyError" -> "'" \o e.msg \o "'"
      [] e.type = "httpx.HTTPStatusError" ->
            "Client error '" \o ToString(e.status) \o "' for url"
      [] OTHER -> e.msg

\* as Caught, for a handler that catches what line 99 catches
Caught_status_only(e) == e.type = "httpx.HTTPStatusError"

\* `except Exception`: every exception class raised here derives from Exception
Caught(e) ==
    e.type \in {"Exception", "ValueError", "KeyError", "TypeError", "json.JSONDecodeError",
                "httpx.HTTPStatusError", "httpx.TimeoutException"}

\* the text a handler returns after make_graph_request returned t.result
SuccessText(t) ==
    CASE t.handler = "get_email" -> "Email Details:\n\n" \o format_email(t.result[1])
      [] t.handler = "delete_email" ->
            "Email deleted successfully!\n\nMessage ID: " \o t.message_id
      [] OTHER ->
            IF Get(t.result[1], "value", "[]") = "[]"
            THEN "No emails found"
            ELSE "Found emails:\n" \o Get(t.result[1], "value", "[]")

\* the handler's continuation once its make_graph_request call has finished:
\* the except clause turns an exception into text, anything else it lets through
HandlerReturn(t) ==
    IF t.handler = "" \/ t.pc /= "done"
    THEN t
    ELSE IF t.error = NoError
         THEN [t EXCEPT !.output = SuccessText(t)]
         ELSE IF Caught(t.error)
              THEN [t EXCEPT !.output = "Error: " \o ErrorText(t.error)]
              ELSE [t EXCEPT !.escaped = t.error]

\* asyncio runs one coroutine at a time and resumes the awaiting caller in the
\* very step that finishes the awaited coroutine: while a finished call has not
\* yet been taken by its caller, nothing else runs.
Running == \A c \in Callers : task[c].pc /= "done"

Init ==
    /\ TENANT_ID \in {"", "tenant"}
    /\ CLIENT_ID \in {"", "client"}
    /\ CLIENT_SECRET \in {"", "secret"}
    /\ access_token = None
    /\ token_expiry = None
    /\ now = StartTime
    /\ task = [c \in Callers |-> IdleTask]
    /\ issued = 0
    /\ started = 0
    /\ expiry_token = None

\* a caller awaits get_access_token() directly
get_access_token(c) ==
    /\ Running
    /\ task[c].pc = "idle"
    /\ started < MaxCalls
    /\ started' = started + 1
    /\ task' = [task EXCEPT ![c] = Enter([IdleTask EXCEPT !.op = "get_access_token"])]
    /\ UNCHANGED <<TENANT_ID, CLIENT_ID, CLIENT_SECRET, access_token, token_expiry, now, issued, expiry_token>>

\* a caller awaits make_graph_request(method, endpoint, data, params)
make_graph_request(c) ==
    /\ Running
    /\ task[c].pc = "idle"
    /\ started < MaxCalls
    /\ started' = started + 1
    /\ \E m \in Methods, e \in Endpoints, a \in Arguments :
          task' = [task EXCEPT ![c] =
                      Enter([IdleTask EXCEPT !.op = "make_graph_request", !.method = m,
                                             !.endpoint = e, !.data = a[1], !.params = a[2]])]
    /\ UNCHANGED <<TENANT_ID, CLIENT_ID, CLIENT_SECRET, access_token, token_expiry, now, issued, expiry_token>>

\* lines 210-217 and 479-482: the coroutine of a handler that needs a message
\* id, up to its first await or to its return
RequiresMessageId(name, id, method, params) ==
    IF Strip(id) = ""
    THEN [IdleTask EXCEPT !.pc = "done", !.handler = name, !.message_id = id,
                          !.output = "Error: message_id is required"]
    ELSE HandlerReturn(Enter(
             [IdleTask EXCEPT !.handler = name, !.message_id = id,
                              !.op = "make_graph_request", !.method = method,
                              !.endpoint = "/me/messages/" \o id, !.params = params]))

\* lines 204-217
get_email(c) ==
    /\ Running
    /\ task[c].pc = "idle"
    /\ started < MaxCalls
    /\ started' = started + 1
    /\ \E id \in MessageIds :
          task' = [task EXCEPT ![c] =
                      RequiresMessageId("get_email", id, "GET", Some("$select=id,subject"))]
    /\ UNCHANGED <<TENANT_ID, CLIENT_ID, CLIENT_SECRET, access_token, token_expiry, now, issued, expiry_token>>

\* lines 474-482
delete_email(c) ==
    /\ Running
    /\ task[c].pc = "idle"
    /\ started < MaxCalls
    /\ started' = started + 1
    /\ \E id \in MessageIds :
          task' = [task EXCEPT ![c] = RequiresMessageId("delete_email", id, "DELETE", None)]
    /\ UNCHANGED <<TENANT_ID, CLIENT_ID, CLIENT_SECRET, access_token, token_expiry, now, issued, expiry_token>>

\* lines 158-179
read_emails(c) ==
    /\ Running
    /\ task[c].pc = "idle"
    /\ started < MaxCalls
    /\ started' = started + 1
    /\ task' = [task EXCEPT ![c] =
                   HandlerReturn(Enter(
                       [IdleTask EXCEPT !.handler = "read_emails",
                                        !.op = "make_graph_request", !.method = "GET",
                                        !.endpoint = "/me/messages",
                                        !.params = Some("$top=25&$skip=0&$orderby=receivedDateTime DESC")]))]
    /\ UNCHANGED <<TENANT_ID, CLIENT_ID, CLIENT_SECRET, access_token, token_expiry, now, issued, expiry_token>>

\* as ComputeExpiry, without the safety margin
ComputeExpiry_no_margin(at, expires_in) == at + expires_in

\* line 67
ComputeExpiry(at, expires_in) == at + expires_in - ExpiryMargin

\* line 66: token_data.get("expires_in", 3600)
ExpiresIn(resp) == IF resp.expires_in.t = "absent" THEN DefaultExpiresIn ELSE resp.expires_in.v

\* lines 61-69 when the exchange times out: client.post raises
token_exchange_timeout(c) ==
    /\ Running
    /\ task[c].pc = "token_wait"
    /\ task' = [task EXCEPT ![c] = HandlerReturn(Fail(@, Raise("httpx.TimeoutException", "")))]
    /\ UNCHANGED <<TENANT_ID, CLIENT_ID, CLIENT_SECRET, access_token, token_expiry, now, issued, started, expiry_token>>

\* lines 61-69 when the token endpoint answers
token_exchange_response(c) ==
    /\ Running
    /\ task[c].pc = "token_wait"
    /\ \E resp \in TokenResponses(issued + 1) :
          LET t == [task[c] EXCEPT !.token_response = resp]
              written == IF resp.access_token.t = "null" THEN None ELSE Some(resp.access_token.v)
          IN
          \/ /\ ~is_success(resp)                          \* line 62 raises
             /\ task' = [task EXCEPT ![c] = HandlerReturn(Fail(t, HTTPStatusError(resp)))]
             /\ UNCHANGED <<access_token, token_expiry, issued, expiry_token>>
          \/ /\ is_success(resp)
             /\ resp.access_token.t = "missing"            \* line 65 raises KeyError
             /\ task' = [task EXCEPT ![c] = HandlerReturn(Fail(t, Raise("KeyError", "access_token")))]
             /\ UNCHANGED <<access_token, token_expiry, issued, expiry_token>>
          \/ /\ is_success(resp)
             /\ resp.access_token.t /= "missing"
             /\ resp.expires_in.t = "str"                  \* line 65 has run, line 67 raises TypeError
             /\ access_token' = written
             /\ issued' = issued + 1
             /\ task' = [task EXCEPT ![c] = HandlerReturn(Fail(t, Raise("TypeError", "unsupported operand type(s)")))]
             /\ UNCHANGED <<token_expiry, expiry_token>>
          \/ /\ is_success(resp)
             /\ resp.access_token.t /= "missing"
             /\ resp.expires_in.t /= "str"
             /\ access_token' = written
             /\ token_expiry' = Some(ComputeExpiry(now, ExpiresIn(resp)))
             /\ expiry_token' = written
             /\ issued' = issued + 1
             /\ task' = [task EXCEPT ![c] = HandlerReturn(Dispatch(t, written))]
    /\ UNCHANGED <<TENANT_ID, CLIENT_ID, CLIENT_SECRET, now, started>>

\* as GraphErrorMessage, with the response body left out
GraphErrorMessage_no_body(resp) == "Graph API error " \o ToString(resp.status)

\* line 101
GraphErrorMessage(resp) == "Graph API error " \o ToString(resp.status) \o ": " \o resp.text

\* lines 84-90 when the Graph call times out: not an HTTPStatusError, so it propagates
graph_timeout(c) ==
    /\ Running
    /\ task[c].pc = "graph_wait"
    /\ task' = [task EXCEPT ![c] = HandlerReturn(Fail(@, Raise("httpx.TimeoutException", "")))]
    /\ UNCHANGED <<TENANT_ID, CLIENT_ID, CLIENT_SECRET, access_token, token_expiry, now, issued, started, expiry_token>>

\* as HandleResponse, without the `if response.text` test of line 96
HandleResponse_always_parse(t, resp) ==
    IF ~is_success(resp)
    THEN Fail(t, Raise("Exception", GraphErrorMessage(resp)))
    ELSE IF IsJson(resp.text)
         THEN [t EXCEPT !.pc = "done", !.result = Some(response_json(resp.text))]
         ELSE Fail(t, Raise("json.JSONDecodeError", "Expecting value"))

\* lines 94-101 on the Graph reply
HandleResponse(t, resp) ==
    IF ~is_success(resp)
    THEN Fail(t, Raise("Exception", GraphErrorMessage(resp)))
    ELSE IF resp.text /= ""
         THEN IF IsJson(resp.text)
              THEN [t EXCEPT !.pc = "done", !.result = Some(response_json(resp.text))]
              ELSE Fail(t, Raise("json.JSONDecodeError", "Expecting value"))
         ELSE [t EXCEPT !.pc = "done", !.result = Some({})]

graph_response(c) ==
    /\ Running
    /\ task[c].pc = "graph_wait"
    /\ \E resp \in GraphResponses :
          task' = [task EXCEPT ![c] = HandlerReturn(HandleResponse([@ EXCEPT !.response = resp], resp))]
    /\ UNCHANGED <<TENANT_ID, CLIENT_ID, CLIENT_SECRET, access_token, token_expiry, now, issued, started, expiry_token>>

\* the awaiting caller takes the result or the exception; the coroutine is gone
Return(c) ==
    /\ task[c].pc = "done"
    /\ task' = [task EXCEPT ![c] = IdleTask]
    /\ UNCHANGED <<TENANT_ID, CLIENT_ID, CLIENT_SECRET, access_token, token_expiry, now, issued, started, expiry_token>>

\* the wall clock advances
Tick ==
    /\ Running
    /\ now + TickStep <= StartTime + MaxTicks * TickStep
    /\ now' = now + TickStep
    /\ UNCHANGED <<TENANT_ID, CLIENT_ID, CLIENT_SECRET, access_token, token_expiry, task, issued, started, expiry_token>>

Next ==
    \/ \E c \in Callers : get_access_token(c)
    \/ \E c \in Callers : make_graph_request(c)
    \/ \E c \in Callers : get_email(c)
    \/ \E c \in Callers : delete_email(c)
    \/ \E c \in Callers : read_emails(c)
    \/ \E c \in Callers : token_exchange_timeout(c)
    \/ \E c \in Callers : token_exchange_response(c)
    \/ \E c \in Callers : graph_timeout(c)
    \/ \E c \in Callers : graph_response(c)
    \/ \E c \in Callers : Return(c)
    \/ Tick

Spec == Init /\ [][Next]_vars

\* ======================================================================
\* Properties
\* ======================================================================

\* the kinds of the network calls a coroutine has made, in order
Kinds(t) == [i \in 1..Len(t.calls) |-> t.calls[i].kind]
TokenCalls(t) == Cardinality({i \in 1..Len(t.calls) : t.calls[i].kind = "token"})
GraphCalls(t) == Cardinality({i \in 1..Len(t.calls) : t.calls[i].kind = "graph"})

\* a cached token exists and now < expiresAt
CachedTokenValid == access_token /= None /\ token_expiry /= None /\ now < token_expiry[1]
CredentialsPresent == TENANT_ID /= "" /\ CLIENT_ID /= "" /\ CLIENT_SECRET /= ""

\* caller c starts a call that needs a token in this step
Starts(c) == task[c].pc = "idle" /\ task'[c].pc /= "idle" /\ task'[c].op /= ""
\* get_access_token hands a token to caller c in this step
HandsToken(c) == ~task[c].got_token /\ task'[c].got_token
\* the token exchange of caller c is answered with a 2xx / a non-2xx status in this step
Answered(c) == task[c].pc = "token_wait" /\ task'[c].token_response.status /= 0
SupportedMethods == {"GET", "POST", "PATCH", "DELETE", "get", "post", "patch", "delete"}

\* ---------------------------------------------------------------------
\* C1: under any interleaving, get_access_token never returns a token whose
\* expiresAt has already passed at the moment it is returned, on the fast
\* path and on the refresh path, for any expires_in.
\* Fails on the refresh path: with expires_in <= 60 the token is returned
\* with expiresAt = now + expires_in - 60 <= now.
C1_NeverReturnsExpired ==
    [][\A c \in Callers :
          HandsToken(c) => (token_expiry' /= None /\ now' < token_expiry'[1])]_vars

\* ---------------------------------------------------------------------
\* C2: a call to get_access_token made while a cached token exists with
\* now < expiresAt makes no network call, returns the cached token and
\* leaves the cache (token and expiresAt) unchanged.
C2_FastPathNoSideEffect ==
    [][\A c \in Callers :
          (Starts(c) /\ CachedTokenValid) =>
              /\ TokenCalls(task'[c]) = 0
              /\ task'[c].got_token
              /\ Some(task'[c].token[1]) = access_token
              /\ access_token' = access_token
              /\ token_expiry' = token_expiry
              /\ (task'[c].op = "get_access_token" =>
                     /\ task'[c].pc = "done"
                     /\ task'[c].calls = <<>>
                     /\ task'[c].error = NoError)]_vars

C2_Witness ==
    \E c \in Callers :
        /\ task[c].op = "get_access_token"
        /\ task[c].pc = "done"
        /\ task[c].calls = <<>>
        /\ task[c].got_token
        /\ task[c].token = access_token
        /\ CachedTokenValid

\* ---------------------------------------------------------------------
\* C3: with all credentials present, a call that finds no usable cached token
\* makes exactly one token-exchange call, and a successful exchange leaves
\* expiresAt = exchangeTime + expires_in - 60 in the cache, expires_in being
\* 3600 when the response omits it.
C3_OneExchangeAndExpiry ==
    [][\A c \in Callers :
          /\ (Starts(c) /\ ~CachedTokenValid /\ CredentialsPresent) =>
                 (task'[c].pc = "token_wait" /\ Kinds(task'[c]) = <<"token">>)
          /\ (task[c].pc /= "idle" /\ task'[c].pc /= "idle") =>
                 TokenCalls(task'[c]) = TokenCalls(task[c])
          /\ (task[c].pc = "token_wait" /\ HandsToken(c)) =>
                 LET e == task'[c].token_response.expires_in
                 IN token_expiry' =
                        Some(now + (IF e.t = "absent" THEN 3600 ELSE e.v) - 60)]_vars

C3_Witness ==
    \E c \in Callers :
        /\ task[c].op = "get_access_token"
        /\ task[c].pc = "done"
        /\ task[c].got_token
        /\ Kinds(task[c]) = <<"token">>
        /\ task[c].token_response.expires_in.t = "absent"
        /\ token_expiry = Some(now + 3540)

\* ---------------------------------------------------------------------
\* C4: make_graph_request with a method other than GET, POST, PATCH, DELETE
\* fails with the unsupported-method error and has made no network call at
\* all, whatever the token cache and the credentials are.
\* Stated here for the case in which all three credentials are present.
\* Fails: the token is fetched (line 74) before the method is looked at, so
\* an empty or expired cache costs a token exchange first.
C4_UnsupportedBeforeNetwork ==
    \A c \in Callers :
        (/\ task[c].op = "make_graph_request"
         /\ task[c].method \notin SupportedMethods
         /\ CredentialsPresent) =>
            /\ task[c].calls = <<>>
            /\ task[c].pc = "done"
            /\ task[c].error.type = "ValueError"

\* ---------------------------------------------------------------------
\* C5: when the token endpoint answers the exchange with a non-2xx status,
\* get_access_token fails with an error carrying that status and body, and
\* the exchange caches nothing: the cache is as it was (empty, or holding
\* the expired token).
C5_RejectedExchange ==
    [][\A c \in Callers :
          LET resp == task'[c].token_response
          IN (Answered(c) /\ (resp.status < 200 \/ resp.status > 299)) =>
                 /\ task'[c].pc = "done"
                 /\ ~task'[c].got_token
                 /\ task'[c].error.type = "httpx.HTTPStatusError"
                 /\ task'[c].error.status = resp.status
                 /\ task'[c].error.text = resp.text
                 /\ Kinds(task'[c]) = <<"token">>
                 /\ access_token' = access_token
                 /\ token_expiry' = token_expiry]_vars

C5_Witness ==
    \E c \in Callers :
        /\ task[c].pc = "done"
        /\ task[c].token_response.status = 401
        /\ task[c].error.status = 401
        /\ task[c].error.text = "{\"error\":\"invalid_client\"}"
        /\ access_token /= None
        /\ token_expiry /= None
        /\ token_expiry[1] <= now

C5_WitnessEmpty ==
    \E c \in Callers :
        /\ task[c].pc = "done"
        /\ task[c].error.status = 401
        /\ access_token = None
        /\ token_expiry = None

\* ---------------------------------------------------------------------
\* C6: when any of tenant id, client id or client secret is missing, every
\* call that needs a token (get_access_token, or make_graph_request through
\* it) fails with the missing-credentials error and makes no network call.
C6_MissingCredentials ==
    (TENANT_ID = "" \/ CLIENT_ID = "" \/ CLIENT_SECRET = "") =>
        \A c \in Callers :
            /\ task[c].calls = <<>>
            /\ task[c].pc \in {"idle", "done"}
            /\ (task[c].pc = "done" /\ task[c].op /= "") =>
                  /\ task[c].error.type = "Exception"
                  /\ task[c].error.msg = "Missing required credentials: TENANT_ID, CLIENT_ID, CLIENT_SECRET"
                  /\ ~task[c].got_token

C6_Witness ==
    \E c \in Callers :
        /\ TENANT_ID /= "" /\ CLIENT_ID /= "" /\ CLIENT_SECRET = ""
        /\ task[c].op = "make_graph_request"
        /\ task[c].pc = "done"
        /\ task[c].error.type = "Exception"
        /\ task[c].calls = <<>>

\* ---------------------------------------------------------------------
\* C7 as stated: every invocation of make_graph_request makes exactly one
\* outbound Graph call and zero or one token exchange, whatever its outcome.
\* Fails: an invocation that gets no token, or whose method is refused,
\* makes no Graph call.
C7_ExactlyOneGraphCall ==
    \A c \in Callers :
        (task[c].op = "make_graph_request" /\ task[c].pc = "done") =>
            (GraphCalls(task[c]) = 1 /\ TokenCalls(task[c]) <= 1)

\* C7 as amended: an invocation of make_graph_request makes at most one token
\* exchange and then at most one Graph call, none of them ever repeated; it
\* makes exactly one Graph call when it obtained a token and the method is
\* supported, and none otherwise.
C7_AtMostOncePerCall ==
    \A c \in Callers :
        task[c].op = "make_graph_request" =>
            /\ Kinds(task[c]) \in {<<>>, <<"token">>, <<"graph">>, <<"token", "graph">>}
            /\ (task[c].pc = "graph_wait" => GraphCalls(task[c]) = 1)
            /\ (task[c].pc = "done" =>
                   (GraphCalls(task[c]) = 1 <=>
                        (task[c].got_token /\ task[c].method \in SupportedMethods)))

C7_Witness ==
    \E c \in Callers :
        /\ task[c].op = "make_graph_request"
        /\ task[c].pc = "done"
        /\ Kinds(task[c]) = <<"token", "graph">>
        /\ task[c].response.status = 500
        /\ task[c].error /= NoError

\* ---------------------------------------------------------------------
\* C8: when the mailbox API answers with a client or server error status,
\* make_graph_request fails with an error that carries the numeric status
\* and the raw response body text unmodified (403 with body
\* {"error":{"message":"Access denied"}} gives exactly that text), after
\* exactly one Graph call.
C8_RemoteErrorCarriesStatusAndBody ==
    \A c \in Callers :
        (/\ task[c].op = "make_graph_request"
         /\ task[c].pc = "done"
         /\ task[c].response.status >= 400) =>
            /\ task[c].error.type = "Exception"
            /\ task[c].error.msg =
                   "Graph API error " \o ToString(task[c].response.status) \o ": " \o task[c].response.text
            /\ (task[c].response.status = 403 =>
                   task[c].error.msg = "Graph API error 403: {\"error\":{\"message\":\"Access denied\"}}")
            /\ task[c].result = None
            /\ GraphCalls(task[c]) = 1

C8_Witness ==
    \E c \in Callers :
        /\ task[c].op = "make_graph_request"
        /\ task[c].pc = "done"
        /\ task[c].response = [status |-> 403, text |-> "{\"error\":{\"message\":\"Access denied\"}}"]
        /\ task[c].error.msg = "Graph API error 403: {\"error\":{\"message\":\"Access denied\"}}"

\* ---------------------------------------------------------------------
\* C9: when make_graph_request is called with valid credentials and the cache
\* is empty or holds an expired token, exactly one fresh token exchange
\* completes before the Graph call is issued, and the Graph call carries the
\* token obtained by that exchange as its bearer token.
C9_FreshExchangeBeforeGraphCall ==
    [][\A c \in Callers :
          /\ (/\ Starts(c)
              /\ task'[c].op = "make_graph_request"
              /\ CredentialsPresent
              /\ ~CachedTokenValid) =>
                 (task'[c].pc = "token_wait" /\ Kinds(task'[c]) = <<"token">>)
          /\ (/\ task[c].op = "make_graph_request"
              /\ TokenCalls(task[c]) = 1
              /\ GraphCalls(task[c]) = 0
              /\ GraphCalls(task'[c]) > 0) =>
                 LET resp == task'[c].token_response
                 IN /\ task[c].pc = "token_wait"
                    /\ Kinds(task'[c]) = <<"token", "graph">>
                    /\ resp.status = 200
                    /\ resp.access_token.t = "str"
                    /\ task'[c].calls[2].auth = "Bearer " \o resp.access_token.v
                    /\ task'[c].token = Some(resp.access_token.v)
                    /\ access_token' = Some(resp.access_token.v)]_vars

C9_Witness ==
    \E c \in Callers :
        /\ task[c].op = "make_graph_request"
        /\ Kinds(task[c]) = <<"token", "graph">>
        /\ task[c].calls[2].auth = "Bearer tok2"
        /\ task[c].token_response.access_token.v = "tok2"
        /\ issued = 2

\* ---------------------------------------------------------------------
\* C10: for each of the four supported methods the outbound Graph request
\* carries the caller's query parameters whenever they are present; GET and
\* DELETE carry no JSON body, POST and PATCH carry the caller's body.
\* Fails: the DELETE branch (line 90) does not pass params.
C10_ParamsAndBodyCarried ==
    \A c \in Callers :
        \A i \in 1..Len(task[c].calls) :
            LET g == task[c].calls[i]
            IN g.kind = "graph" =>
                   /\ (task[c].params /= None => g.params = task[c].params)
                   /\ (g.verb \in {"GET", "DELETE"} => g.json = None)
                   /\ (g.verb \in {"POST", "PATCH"} => g.json = task[c].data)

\* ---------------------------------------------------------------------
\* C11: a network call that times out fails in the same error class as a
\* rejected response of that call.  Stated here for the Graph request: a
\* timed-out Graph call is reported like a rejected one, as the "Graph API
\* error" exception of line 101.
\* Fails: lines 99-101 catch httpx.HTTPStatusError only, so the timeout
\* leaves make_graph_request as a bare httpx.TimeoutException.
C11_GraphTimeoutClassified ==
    \A c \in Callers :
        (/\ task[c].op = "make_graph_request"
         /\ task[c].pc = "done"
         /\ GraphCalls(task[c]) = 1
         /\ task[c].response = NoGraphResponse) =>
            task[c].error.type = "Exception"

\* ---------------------------------------------------------------------
\* C12: when get_access_token calls run their exchanges concurrently, the
\* cache holds the token and expiresAt of the successful exchange that
\* completed last, and each caller is returned the token of its own exchange:
\* a successful exchange writes its own token and expiry and returns that
\* token, and once an exchange has succeeded an exchange that ends without
\* success leaves the cache alone.
\* Fails: an exchange whose 2xx reply has an unusable expires_in has already
\* overwritten the cached token (line 65) when line 67 raises.
C12_LastSuccessfulExchangeWins ==
    [][\A c \in Callers :
          LET resp == task'[c].token_response
          IN /\ (task[c].pc = "token_wait" /\ HandsToken(c)) =>
                    /\ access_token' = Some(resp.access_token.v)
                    /\ token_expiry' =
                           Some(now + (IF resp.expires_in.t = "absent" THEN 3600 ELSE resp.expires_in.v) - 60)
                    /\ task'[c].token = Some(resp.access_token.v)
             /\ (/\ token_expiry /= None
                 /\ task[c].pc = "token_wait"
                 /\ task'[c].pc = "done"
                 /\ ~task'[c].got_token) =>
                    (access_token' = access_token /\ token_expiry' = token_expiry)]_vars

\* ---------------------------------------------------------------------
\* C13: when the Graph call succeeds, make_graph_request returns the parsed
\* JSON value of a non-empty body and an empty mapping for an empty body
\* (204 No Content); an empty successful body never gives a parse error.
C13_SuccessfulBodyParsed ==
    \A c \in Callers :
        (/\ task[c].op = "make_graph_request"
         /\ task[c].pc = "done"
         /\ task[c].response.status >= 200
         /\ task[c].response.status <= 299) =>
            /\ task[c].error = NoError
            /\ (task[c].response.text = "" => task[c].result = Some({}))
            /\ (task[c].response.text = "{\"value\":[]}" =>
                   task[c].result = Some({<<"value", "[]">>}))
            /\ task[c].result /= None

C13_Witness ==
    \E c \in Callers :
        /\ task[c].op = "make_graph_request"
        /\ task[c].pc = "done"
        /\ task[c].response = [status |-> 204, text |-> ""]
        /\ task[c].result = Some({})
        /\ task[c].error = NoError

C13_WitnessJson ==
    \E c \in Callers :
        /\ task[c].op = "make_graph_request"
        /\ task[c].pc = "done"
        /\ task[c].response.text = "{\"value\":[]}"
        /\ task[c].result = Some({<<"value", "[]">>})

\* ---------------------------------------------------------------------
\* C15: in every reachable state the cached token and the cached expiresAt
\* were written together by the same exchange: the cache never holds the
\* token of one exchange paired with the expiry of another.
\* Fails: line 65 writes the token, and line 67 raises before it writes the
\* expiry when expires_in is not a number.
C15_TokenAndExpiryFromSameExchange ==
    (access_token /= None /\ token_expiry /= None) => expiry_token = access_token

\* ---------------------------------------------------------------------
\* C14: over any interleaving the token cache is written only by a successful
\* token exchange of a get_access_token call that had found the cache empty
\* or expired; nothing else (request dispatch, handlers, failed exchanges)
\* changes it, and once a token is cached the cache never becomes empty again.
\* Fails: an exchange that fails at line 67 has changed the cached token.
C14_CacheWrittenOnlyBySuccessfulExchange ==
    [][/\ (access_token' /= access_token \/ token_expiry' /= token_expiry) =>
              \E c \in Callers :
                  /\ task[c].pc = "token_wait"
                  /\ Kinds(task[c]) = <<"token">>
                  /\ HandsToken(c)
       /\ (access_token /= None => access_token' /= None)
       /\ (token_expiry /= None => token_expiry' /= None)]_vars

\* ---------------------------------------------------------------------
\* C16: every tool handler invocation ends by returning a single string and
\* never raises to the transport: a failure raised by make_graph_request is
\* caught and returned as an error text, and a handler whose required
\* message_id is blank returns an error text without calling
\* make_graph_request at all.
C16_HandlerAlwaysReturnsText ==
    \A c \in Callers :
        task[c].handler /= "" =>
            /\ task[c].escaped = NoError
            /\ (task[c].pc = "done" <=> task[c].output /= "")
            /\ (task[c].pc = "done" /\ task[c].error.type \in {"Exception", "ValueError"}) =>
                   task[c].output = "Error: " \o task[c].error.msg
            /\ (task[c].pc = "done" /\ task[c].error.type = "httpx.TimeoutException") =>
                   task[c].output = "Error: "
            /\ (task[c].handler \in {"get_email", "delete_email"} /\ task[c].message_id \in {"", "  "}) =>
                   /\ task[c].pc = "done"
                   /\ task[c].op = ""
                   /\ task[c].calls = <<>>
                   /\ task[c].output = "Error: message_id is required"

C16_Witness ==
    \E c \in Callers :
        /\ task[c].handler = "delete_email"
        /\ task[c].pc = "done"
        /\ task[c].error.type = "httpx.TimeoutException"
        /\ Kinds(task[c]) = <<"token", "graph">>
        /\ task[c].output = "Error: "
        /\ task[c].escaped = NoError

C16_WitnessBlank ==
    \E c \in Callers :
        /\ task[c].handler = "get_email"
        /\ task[c].message_id = "  "
        /\ task[c].pc = "done"
        /\ task[c].calls = <<>>
        /\ task[c].output = "Error: message_id is required"

C16_WitnessRemoteError ==
    \E c \in Callers :
        /\ task[c].handler = "read_emails"
        /\ task[c].pc = "done"
        /\ task[c].output = "Error: Graph API error 403: {\"error\":{\"message\":\"Access denied\"}}"

====
